---- MODULE Spec2Model ----
(***************************************************************************)
(* Model of Ai_Book_Translator.py: the manuscript parser                   *)
(* (convert_txt_to_dict), the Book aggregator, the API-key check and the   *)
(* translation pass of main with its bounded retry loops.                  *)
(*                                                                         *)
(* Texts are sequences of one-character strings, so that split, strip,     *)
(* the marker regex, upper() and the sentinel formatting are computed      *)
(* character by character.                                                 *)
(***************************************************************************)
EXTENDS Integers, Sequences, FiniteSets, TLC

VARIABLES
    pc,                 \* position of the running program
    file_content,       \* text of the input manuscript file
    file_exists,        \* whether the input path names an existing file
    dictionary_format,  \* ordered mapping returned by convert_txt_to_dict
    exit_msg,           \* "" or the kind of sys.exit that ended the process
    book_object,        \* the Book: [title, content]
    raised,             \* "" or the exception raised by the last Book call
    last_call,          \* the last Book method called
    api_check,          \* main: TRUE while the key is not validated
    key_tries,          \* keys rejected in the key loop (kept until parsing)
    last_probe,         \* outcome of the latest probe call
    model_ready,        \* setup_gemini has returned a model
    indexes,            \* list(dictionary_format.keys())
    sec,                \* position of "index" in indexes (1-based)
    num,                \* paragraphs of the section done so far
    retries,            \* retries of the running retry loop
    translated_heading,
    translation,
    files_open,         \* the two text files are open
    translated_file,    \* text written to <name>_translated.txt
    full_file,          \* text written to <name>_full.txt
    parsed_json,        \* <<>> or <<document>> written to <name>_parsed.json
    structured_json,    \* <<>> or <<document>> of <name>_structured_book.json
    json_errors,        \* JSON writers that reported an error
    returned,           \* "pending", "None" or "book_object"
    attempts,           \* translation calls made for the current unit
    fails,              \* of which failed
    unit_ok,            \* a call for the current unit has succeeded
    gave_up,            \* the else branch of the retry loop was taken
    last_return,        \* response.text of the latest successful call
    any_call,           \* some translation call has been made
    scope_exception,    \* an exception reached the except clause of main
    had_success,        \* some translation call has succeeded
    pauses,             \* kinds of sleep since the latest successful call
    failed_since,       \* an attempt failed since the latest successful call
    had_prev,           \* the latest successful call had a predecessor
    gap                 \* sleeps between the latest two successful calls

parseVars == <<pc, file_content, file_exists, dictionary_format, exit_msg>>
bookVars == <<book_object, raised, last_call>>
progVars == <<api_check, key_tries, last_probe, model_ready, indexes, sec, num,
              retries, translated_heading, translation, files_open,
              translated_file, full_file, parsed_json, structured_json,
              json_errors, returned>>
histVars == <<attempts, fails, unit_ok, gave_up, last_return, any_call,
              scope_exception, had_success, pauses, failed_since, had_prev, gap>>
mainVars == <<progVars, histVars>>
vars == <<parseVars, bookVars, mainVars>>

----------------------------------------------------------------------------
(* Bounds *)

MaxBlocks == 5          \* blocks in a generated manuscript (parser runs)
MaxChapters == 3        \* chapters added in a Book run
MaxParagraphs == 3      \* paragraphs added in a Book run
MaxMainBlocks == 3      \* blocks in a manuscript given to main
MaxKeyTries == 3        \* API keys entered before a valid one

----------------------------------------------------------------------------
(* Characters and text helpers *)

NL == "\n"
SP == " "
Whitespace == {NL, SP, "\t"}

Max(S) == CHOOSE m \in S : \A n \in S : n <= m
Min(S) == CHOOSE m \in S : \A n \in S : m <= n

\* str.strip(): drop leading and trailing whitespace
RECURSIVE LStrip(_)
LStrip(s) ==
    IF s # <<>> /\ Head(s) \in Whitespace THEN LStrip(Tail(s)) ELSE s

RECURSIVE RStrip(_)
RStrip(s) ==
    IF s # <<>> /\ s[Len(s)] \in Whitespace
    THEN RStrip(SubSeq(s, 1, Len(s) - 1)) ELSE s

Strip(s) == RStrip(LStrip(s))

\* str.split("\n\n"): leftmost, non-overlapping occurrences of the separator
SepAt(s, i) == i + 1 <= Len(s) /\ s[i] = NL /\ s[i + 1] = NL

RECURSIVE SplitBlank(_)
SplitBlank(s) ==
    LET hits == {i \in 1..Len(s) : SepAt(s, i)}
    IN  IF hits = {} THEN <<s>>
        ELSE LET i == Min(hits)
             IN  <<SubSeq(s, 1, i - 1)>> \o SplitBlank(SubSeq(s, i + 2, Len(s)))

\* re.match(r"^\{-(.+)-\}$", block): "." excludes the newline, and "$"
\* matches at the end or just before one final newline
MarkerEnd(block) ==
    IF block # <<>> /\ block[Len(block)] = NL THEN Len(block) - 1 ELSE Len(block)

IsMarker(block) ==
    LET e == MarkerEnd(block)
    IN  /\ e >= 5
        /\ block[1] = "{" /\ block[2] = "-"
        /\ block[e - 1] = "-" /\ block[e] = "}"
        /\ \A i \in 3..(e - 2) : block[i] # NL

\* match.group(1)
MarkerName(block) == SubSeq(block, 3, MarkerEnd(block) - 2)

----------------------------------------------------------------------------
(* convert_txt_to_dict *)

SummaryKey == <<"s", "u", "m", "m", "a", "r", "y">>

\* Ordered dict as a sequence of [key, val] entries in insertion order.
HasKey(d, k) == \E i \in DOMAIN d : d[i].key = k
Keys(d) == [i \in DOMAIN d |-> d[i].key]
Lookup(d, k) == d[CHOOSE i \in DOMAIN d : d[i].key = k].val

\* chapter.setdefault(number, []).append(block)
SetDefaultAppend(d, k, block) ==
    IF HasKey(d, k)
    THEN [i \in DOMAIN d |->
            IF d[i].key = k THEN [d[i] EXCEPT !.val = Append(@, block)] ELSE d[i]]
    ELSE Append(d, [key |-> k, val |-> <<block>>])

\* lines 129-133: strip every piece and keep the non-empty ones
RECURSIVE CleanBlocks(_)
CleanBlocks(paragraphs) ==
    IF paragraphs = <<>> THEN <<>>
    ELSE LET clean == Strip(Head(paragraphs))
         IN  (IF clean # <<>> THEN <<clean>> ELSE <<>>) \o CleanBlocks(Tail(paragraphs))

Blocks(content) == CleanBlocks(SplitBlank(Strip(content)))

MinBlockLen == 3

\* one iteration of the loop over blocks; st = [number, chapter]
ParseStep_NoSwitch(st, block) ==
    IF Len(block) < MinBlockLen THEN st
    ELSE IF IsMarker(block) THEN st
    ELSE [st EXCEPT !.chapter = SetDefaultAppend(@, st.number, block)]

ParseStep(st, block) ==
    IF Len(block) < MinBlockLen THEN st
    ELSE IF IsMarker(block) THEN [st EXCEPT !.number = MarkerName(block)]
    ELSE [st EXCEPT !.chapter = SetDefaultAppend(@, st.number, block)]

RECURSIVE ParseLoop(_, _)
ParseLoop(st, blocks) ==
    IF blocks = <<>> THEN st
    ELSE ParseLoop(ParseStep(st, Head(blocks)), Tail(blocks))

convert_txt_to_dict(content) ==
    ParseLoop([number |-> SummaryKey,
               chapter |-> <<[key |-> SummaryKey, val |-> <<>>]>>],
              Blocks(content)).chapter

----------------------------------------------------------------------------
(* Manuscripts: blocks joined by separators *)

PMarkA == <<"{", "-", "a", "-", "}">>
PMarkB == <<"{", "-", "b", "-", "}">>
PPara == <<"x", "y", "z">>
PShort == <<"x", "y">>
PNoName == <<"{", "-", "-", "}">>
PTwoLine == <<"{", "-", "a", "-", "}", NL, "w">>

PPadded == <<NL, "u", "v", "w", SP, NL>>

Pieces == {PMarkA, PMarkB, PPara, PShort, PNoName, PTwoLine, PPadded}
BlankLine == <<NL, NL>>

RECURSIVE Join(_)
Join(bs) ==
    IF bs = <<>> THEN <<>>
    ELSE IF Len(bs) = 1 THEN bs[1]
    ELSE bs[1] \o BlankLine \o Join(Tail(bs))

----------------------------------------------------------------------------
(* Book *)

DefaultTitle == <<"T", "r", "a", "n", "s", "l", "a", "t", "e", "d", " ",
                  "B", "o", "o", "k">>

\* Book.__init__
NewBook(title) == [title |-> title, content |-> <<>>]

\* Book.add_chapter
add_chapter(book, title) ==
    [book EXCEPT !.content = Append(@, [title |-> title, paragraphs |-> <<>>])]

\* "if not self.content: raise ValueError"
HasChapter_TwoNeeded(book) == Len(book.content) > 1

HasChapter(book) == book.content # <<>>

\* Book.add_paragraph_to_last_chapter, past the guard
add_paragraph_to_last_chapter_First(book, original_text, translated_text) ==
    [book EXCEPT !.content[1].paragraphs =
        Append(@, [original |-> original_text, translated |-> translated_text])]

add_paragraph_to_last_chapter(book, original_text, translated_text) ==
    [book EXCEPT !.content[Len(book.content)].paragraphs =
        Append(@, [original |-> original_text, translated |-> translated_text])]

RECURSIVE CountParagraphs(_)
CountParagraphs(content) ==
    IF content = <<>> THEN 0
    ELSE Len(Head(content).paragraphs) + CountParagraphs(Tail(content))

BookTitles == {<<"a">>, <<"b">>}
BookTexts == {<<"p">>, <<"q">>}

MainIdle ==
    /\ api_check = TRUE
    /\ key_tries = 0
    /\ last_probe = "none"
    /\ model_ready = FALSE
    /\ indexes = <<>>
    /\ sec = 0
    /\ num = 0
    /\ retries = 0
    /\ translated_heading = <<>>
    /\ translation = <<>>
    /\ files_open = FALSE
    /\ translated_file = <<>>
    /\ full_file = <<>>
    /\ parsed_json = <<>>
    /\ structured_json = <<>>
    /\ json_errors = {}
    /\ returned = "pending"
    /\ attempts = 0
    /\ fails = 0
    /\ unit_ok = FALSE
    /\ gave_up = FALSE
    /\ last_return = <<>>
    /\ any_call = FALSE
    /\ scope_exception = FALSE
    /\ had_success = FALSE
    /\ pauses = {}
    /\ failed_since = FALSE
    /\ had_prev = FALSE
    /\ gap = {}

BookIdle ==
    /\ book_object = NewBook(DefaultTitle)
    /\ raised = ""
    /\ last_call = "none"

ParseIdle ==
    /\ pc = "book"
    /\ file_content = <<>>
    /\ file_exists = FALSE
    /\ dictionary_format = <<>>
    /\ exit_msg = ""

BookInit == ParseIdle /\ BookIdle /\ MainIdle

BookAddChapter ==
    /\ pc = "book"
    /\ Len(book_object.content) < MaxChapters
    /\ \E title \in BookTitles : book_object' = add_chapter(book_object, title)
    /\ raised' = ""
    /\ last_call' = "add_chapter"
    /\ UNCHANGED <<parseVars, mainVars>>

BookAddParagraph ==
    /\ pc = "book"
    /\ HasChapter(book_object)
    /\ CountParagraphs(book_object.content) < MaxParagraphs
    /\ \E o \in BookTexts, t \in BookTexts :
         book_object' = add_paragraph_to_last_chapter(book_object, o, t)
    /\ raised' = ""
    /\ last_call' = "add_paragraph_to_last_chapter"
    /\ UNCHANGED <<parseVars, mainVars>>

BookAddParagraphRejected ==
    /\ pc = "book"
    /\ ~HasChapter(book_object)
    /\ raised' = "ValueError"
    /\ last_call' = "add_paragraph_to_last_chapter"
    /\ UNCHANGED <<book_object, parseVars, mainVars>>

BookNext == BookAddChapter \/ BookAddParagraph \/ BookAddParagraphRejected

SpecBook == BookInit /\ [][BookNext]_vars

----------------------------------------------------------------------------
(* Parser runs *)

NoDict == <<>>

ParseInit ==
    /\ pc = "parse"
    /\ \/ /\ file_exists = TRUE
          /\ \E n \in 0..MaxBlocks :
               \E bs \in [1..n -> Pieces] : file_content = Join(bs)
       \/ /\ file_exists = FALSE
          /\ file_content = <<>>
    /\ dictionary_format = NoDict
    /\ exit_msg = ""
    /\ BookIdle
    /\ MainIdle

\* convert_txt_to_dict on a readable file
ParseOk ==
    /\ pc = "parse"
    /\ file_exists
    /\ dictionary_format' = convert_txt_to_dict(file_content)
    /\ pc' = "parsed"
    /\ UNCHANGED <<file_content, file_exists, exit_msg, bookVars, mainVars>>

\* FileNotFoundError -> sys.exit
ParseMissing ==
    /\ pc = "parse"
    /\ ~file_exists
    /\ exit_msg' = "file not found"
    /\ pc' = "exited"
    /\ UNCHANGED <<file_content, file_exists, dictionary_format, bookVars, mainVars>>

ParseNext == ParseOk \/ ParseMissing

SpecParse == ParseInit /\ [][ParseNext]_vars

----------------------------------------------------------------------------
(* main *)

ParagraphSentinel ==
    <<"[", "T", "r", "a", "n", "s", "l", "a", "t", "i", "o", "n", SP, "F",
     "a", "i", "l", "e", "d", "]">>

HeadingSentinelPrefix ==
    <<"[", "T", "r", "a", "n", "s", "l", "a", "t", "i", "o", "n", SP, "F",
     "a", "i", "l", "e", "d", SP, "f", "o", "r", ":", SP>>

OriginalTag ==
    <<"(", "O", "r", "i", "g", "i", "n", "a", "l", ")", ":", NL, NL>>

TranslatedTag ==
    <<"(", "T", "r", "a", "n", "s", "l", "a", "t", "e", "d", ")", ":", NL,
     NL>>

MainTitle ==
    <<"T", "r", "a", "n", "s", "l", "a", "t", "e", "d", SP, "B", "o", "o",
     "k">>

Lower == <<"a", "b", "c", "d", "e", "f", "g", "h", "i", "j", "k", "l", "m",
           "n", "o", "p", "q", "r", "s", "t", "u", "v", "w", "x", "y", "z">>
Capital == <<"A", "B", "C", "D", "E", "F", "G", "H", "I", "J", "K", "L", "M",
             "N", "O", "P", "Q", "R", "S", "T", "U", "V", "W", "X", "Y", "Z">>

\* str.upper()
Upper(s) ==
    [i \in DOMAIN s |->
        IF \E k \in DOMAIN Lower : Lower[k] = s[i]
        THEN Capital[CHOOSE k \in DOMAIN Lower : Lower[k] = s[i]]
        ELSE s[i]]

max_retries == 5

\* "while retries < max_retries"
LoopContinues_OneMore(r) == r <= max_retries

LoopContinues(r) == r < max_retries

\* f"[Translation Failed for: {index}]"
HeadingSentinel(index) == HeadingSentinelPrefix \o index \o <<"]">>

\* translate_block / translate_heading on a call that returns: response.text.strip()
TranslateResult(reply) == Strip(reply)

\* where the retry loop goes when the call returns: "break" leaves the loop
AfterReturn_NoBreak(stage) == stage

AfterReturn(stage) == IF stage = "heading" THEN "heading_write" ELSE "para_write"

\* check_api_key: True when the probe raises, False when it returns
check_api_key_Inverted(probe) == ~probe.raises

check_api_key(probe) == probe.raises

\* "for block in dictionary_format[index]": is there a block after num done
MoreBlocks_SkipLast(n, blocks) == n + 1 < Len(blocks)

MoreBlocks(n, blocks) == n < Len(blocks)

\* "except Exception: ... return None" of main
OnScopeException_Proceed == [pc |-> "save_book", returned |-> "pending"]

OnScopeException == [pc |-> "aborted", returned |-> "None"]

\* the document that save_book_to_json dumps
BookDocument(book) == [title |-> book.title, content |-> book.content]

\* replies of the remote service (response.text)
Replies == {<<SP, "o", "k", NL>>, ParagraphSentinel}
Probes == {[raises |-> TRUE, text |-> <<>>],
           [raises |-> FALSE, text |-> <<>>],
           [raises |-> FALSE, text |-> <<"n", "o">>]}

MainPieces == {PMarkA, PPara, PPadded}

index == indexes[sec]
section_blocks == Lookup(dictionary_format, index)

ResetUnit ==
    /\ attempts' = 0
    /\ fails' = 0
    /\ unit_ok' = FALSE
    /\ gave_up' = FALSE
    /\ last_return' = <<>>

KeepUnit == UNCHANGED <<attempts, fails, unit_ok, gave_up, last_return>>
KeepGap == UNCHANGED <<had_success, pauses, failed_since, had_prev, gap>>
KeepFiles == UNCHANGED <<translated_file, full_file>>
KeepJson == UNCHANGED <<parsed_json, structured_json, json_errors>>
KeepSetup == UNCHANGED <<file_content, file_exists, dictionary_format, exit_msg,
                         raised, last_call, api_check, key_tries, last_probe,
                         model_ready, indexes>>

MainInit ==
    /\ pc = "start"
    /\ \/ /\ file_exists = TRUE
          /\ \E n \in 0..MaxMainBlocks :
               \E bs \in [1..n -> MainPieces] : file_content = Join(bs)
       \/ /\ file_exists = FALSE
          /\ file_content = <<>>
    /\ dictionary_format = NoDict
    /\ exit_msg = ""
    /\ BookIdle
    /\ MainIdle

\* lines 177-188: the input path is checked and the output directory made
CheckInputPath ==
    /\ pc = "start"
    /\ IF file_exists
       THEN \/ pc' = "key" /\ exit_msg' = ""
            \/ pc' = "exited" /\ exit_msg' = "cannot create output directory"
       ELSE pc' = "exited" /\ exit_msg' = "input file not found"
    /\ UNCHANGED <<file_content, file_exists, dictionary_format, bookVars, mainVars>>

\* lines 203-206: one round of "while api_check"
EnterApiKey ==
    /\ pc = "key"
    /\ api_check
    /\ \E probe \in Probes :
         /\ probe.raises => key_tries < MaxKeyTries
         /\ api_check' = check_api_key(probe)
         /\ last_probe' = IF probe.raises THEN "raised" ELSE "text"
    /\ key_tries' = IF api_check' THEN key_tries + 1 ELSE key_tries
    /\ pc' = IF api_check' THEN "key" ELSE "parse"
    /\ UNCHANGED <<file_content, file_exists, dictionary_format, exit_msg, bookVars,
                   model_ready, indexes, sec, num, retries, translated_heading,
                   translation, files_open, translated_file, full_file,
                   parsed_json, structured_json, json_errors, returned, histVars>>

\* lines 215-216
ParseManuscript ==
    /\ pc = "parse"
    /\ dictionary_format' = convert_txt_to_dict(file_content)
    /\ indexes' = Keys(dictionary_format')
    /\ key_tries' = 0
    /\ pc' = "save_parsed"
    /\ UNCHANGED <<file_content, file_exists, exit_msg, bookVars, api_check,
                   last_probe, model_ready, sec, num, retries,
                   translated_heading, translation, files_open, translated_file,
                   full_file, parsed_json, structured_json, json_errors,
                   returned, histVars>>

\* line 218: save_dict_to_json, which reports a failure and returns
SaveParsed ==
    /\ pc = "save_parsed"
    /\ \/ /\ parsed_json' = <<dictionary_format>>
          /\ json_errors' = json_errors
       \/ /\ parsed_json' = parsed_json
          /\ json_errors' = json_errors \cup {"parsed"}
    /\ pc' = "setup"
    /\ UNCHANGED <<file_content, file_exists, dictionary_format, exit_msg, bookVars,
                   api_check, key_tries, last_probe, model_ready, indexes, sec,
                   num, retries, translated_heading, translation, files_open,
                   translated_file, full_file, structured_json, returned,
                   histVars>>

\* lines 221-225: setup_gemini, then the Book is created
SetupModel ==
    /\ pc = "setup"
    /\ \/ /\ model_ready' = TRUE
          /\ book_object' = NewBook(MainTitle)
          /\ pc' = "open"
          /\ exit_msg' = ""
       \/ /\ model_ready' = FALSE
          /\ book_object' = book_object
          /\ pc' = "exited"
          /\ exit_msg' = "model can not be set up"
    /\ UNCHANGED <<file_content, file_exists, dictionary_format, raised, last_call,
                   api_check, key_tries, last_probe, indexes, sec, num, retries,
                   translated_heading, translation, files_open, translated_file,
                   full_file, parsed_json, structured_json, json_errors,
                   returned, histVars>>

\* the except clause of main (lines 297-300); the with statement closes the files
Abort ==
    /\ pc' = OnScopeException.pc
    /\ returned' = OnScopeException.returned
    /\ files_open' = FALSE
    /\ scope_exception' = TRUE

\* lines 231-236: both text files are opened, the first section starts
OpenFiles ==
    /\ pc = "open"
    /\ files_open' = TRUE
    /\ sec' = 1
    /\ retries' = 0
    /\ translated_heading' = <<>>
    /\ pc' = "heading"
    /\ UNCHANGED <<book_object, num, translation, returned, histVars>>
    /\ KeepSetup /\ KeepFiles /\ KeepJson

OpenFilesFails ==
    /\ pc = "open"
    /\ Abort
    /\ UNCHANGED <<book_object, sec, num, retries, translated_heading, translation,
                   any_call>>
    /\ KeepSetup /\ KeepFiles /\ KeepJson /\ KeepUnit /\ KeepGap

\* bookkeeping of a call that returns / raises
CallReturned(reply) ==
    /\ attempts' = attempts + 1
    /\ fails' = fails
    /\ unit_ok' = TRUE
    /\ gave_up' = gave_up
    /\ last_return' = reply
    /\ any_call' = TRUE
    /\ had_prev' = had_success
    /\ gap' = pauses
    /\ had_success' = TRUE
    /\ pauses' = {}
    /\ failed_since' = FALSE

CallRaised ==
    /\ attempts' = attempts + 1
    /\ fails' = fails + 1
    /\ any_call' = TRUE
    /\ pauses' = pauses \cup {"retry"}
    /\ failed_since' = TRUE
    /\ UNCHANGED <<unit_ok, gave_up, last_return, had_success, had_prev, gap>>

\* lines 240-243: translate_heading returns
TranslateHeadingOk ==
    /\ pc = "heading"
    /\ LoopContinues(retries)
    /\ \E reply \in Replies :
         /\ translated_heading' = TranslateResult(reply)
         /\ CallReturned(reply)
    /\ pc' = AfterReturn("heading")
    /\ UNCHANGED <<book_object, sec, num, retries, translation, files_open,
                   returned, scope_exception>>
    /\ KeepSetup /\ KeepFiles /\ KeepJson

\* lines 244-247: translate_heading raises ValueError; sleep(2)
TranslateHeadingFails ==
    /\ pc = "heading"
    /\ LoopContinues(retries)
    /\ retries' = retries + 1
    /\ CallRaised
    /\ UNCHANGED <<pc, book_object, sec, num, translated_heading, translation,
                   files_open, returned, scope_exception>>
    /\ KeepSetup /\ KeepFiles /\ KeepJson

\* lines 248-250: the else branch of the heading loop
HeadingGiveUp ==
    /\ pc = "heading"
    /\ ~LoopContinues(retries)
    /\ translated_heading' = HeadingSentinel(index)
    /\ gave_up' = TRUE
    /\ pc' = "heading_write"
    /\ UNCHANGED <<book_object, sec, num, retries, translation, files_open,
                   returned, attempts, fails, unit_ok, last_return, any_call,
                   scope_exception>>
    /\ KeepSetup /\ KeepFiles /\ KeepJson /\ KeepGap

\* the next section starts, or the with block and the pass end
NextSection ==
    IF sec < Len(indexes)
    THEN /\ sec' = sec + 1
         /\ retries' = 0
         /\ translated_heading' = <<>>
         /\ pc' = "heading"
         /\ files_open' = files_open
    ELSE /\ pc' = "save_book"
         /\ files_open' = FALSE
         /\ UNCHANGED <<sec, retries, translated_heading>>

\* lines 256-265: heading written to both files, chapter added
WriteHeading ==
    /\ pc = "heading_write"
    /\ translated_file' = translated_file \o <<NL, NL>> \o Upper(translated_heading)
                            \o <<NL, NL, NL>>
    /\ full_file' = full_file \o <<NL, NL>> \o Upper(index) \o <<NL, NL, NL>>
                      \o Upper(translated_heading) \o <<NL, NL, NL>>
    /\ book_object' = add_chapter(book_object, translated_heading)
    /\ num' = 0
    /\ IF MoreBlocks(0, section_blocks)
       THEN /\ pc' = "para"
            /\ retries' = 0
            /\ translation' = <<>>
            /\ UNCHANGED <<sec, translated_heading, files_open>>
       ELSE /\ NextSection
            /\ translation' = translation
    /\ ResetUnit
    /\ UNCHANGED <<returned, any_call, scope_exception>>
    /\ KeepSetup /\ KeepJson /\ KeepGap

\* one of the three heading writes raises; the writes before it are done
WriteHeadingFails ==
    /\ pc = "heading_write"
    /\ \E k \in 1..3 :
         /\ translated_file' =
              IF k >= 2
              THEN translated_file \o <<NL, NL>> \o Upper(translated_heading)
                     \o <<NL, NL, NL>>
              ELSE translated_file
         /\ full_file' =
              IF k >= 3
              THEN full_file \o <<NL, NL>> \o Upper(index) \o <<NL, NL, NL>>
              ELSE full_file
    /\ Abort
    /\ UNCHANGED <<book_object, sec, num, retries, translated_heading, translation,
                   any_call>>
    /\ KeepSetup /\ KeepJson /\ KeepUnit /\ KeepGap

\* lines 270-273: translate_block returns
TranslateBlockOk ==
    /\ pc = "para"
    /\ LoopContinues(retries)
    /\ \E reply \in Replies :
         /\ translation' = TranslateResult(reply)
         /\ CallReturned(reply)
    /\ pc' = AfterReturn("para")
    /\ UNCHANGED <<book_object, sec, num, retries, translated_heading, files_open,
                   returned, scope_exception>>
    /\ KeepSetup /\ KeepFiles /\ KeepJson

\* lines 274-278: translate_block raises ValueError; sleep(2)
TranslateBlockFails ==
    /\ pc = "para"
    /\ LoopContinues(retries)
    /\ retries' = retries + 1
    /\ CallRaised
    /\ UNCHANGED <<pc, book_object, sec, num, translated_heading, translation,
                   files_open, returned, scope_exception>>
    /\ KeepSetup /\ KeepFiles /\ KeepJson

\* lines 279-281: the else branch of the paragraph loop
BlockGiveUp ==
    /\ pc = "para"
    /\ ~LoopContinues(retries)
    /\ translation' = ParagraphSentinel
    /\ gave_up' = TRUE
    /\ pc' = "para_write"
    /\ UNCHANGED <<book_object, sec, num, retries, translated_heading, files_open,
                   returned, attempts, fails, unit_ok, last_return, any_call,
                   scope_exception>>
    /\ KeepSetup /\ KeepFiles /\ KeepJson /\ KeepGap

\* lines 284-292: paragraph added to the Book and written; sleep(1.5)
WriteParagraph ==
    /\ pc = "para_write"
    /\ LET block == section_blocks[num + 1]
       IN  /\ book_object' = add_paragraph_to_last_chapter(book_object, block,
                                                           translation)
           /\ translated_file' = translated_file \o <<":", NL>> \o translation
                                   \o <<NL>>
           /\ full_file' = full_file \o OriginalTag \o block \o <<NL, NL, NL>>
                             \o TranslatedTag \o translation \o <<NL, NL, NL>>
    /\ num' = num + 1
    /\ pauses' = pauses \cup {"throttle"}
    /\ IF MoreBlocks(num + 1, section_blocks)
       THEN /\ pc' = "para"
            /\ retries' = 0
            /\ translation' = <<>>
            /\ UNCHANGED <<sec, translated_heading, files_open>>
       ELSE /\ NextSection
            /\ translation' = translation
    /\ ResetUnit
    /\ UNCHANGED <<returned, any_call, scope_exception, had_success, failed_since,
                   had_prev, gap>>
    /\ KeepSetup /\ KeepJson

\* one of the three paragraph writes raises; the paragraph is in the Book
WriteParagraphFails ==
    /\ pc = "para_write"
    /\ LET block == section_blocks[num + 1]
       IN  /\ book_object' = add_paragraph_to_last_chapter(book_object, block,
                                                           translation)
           /\ \E k \in 1..3 :
                /\ translated_file' =
                     IF k >= 2
                     THEN translated_file \o <<":", NL>> \o translation \o <<NL>>
                     ELSE translated_file
                /\ full_file' =
                     IF k >= 3
                     THEN full_file \o OriginalTag \o block \o <<NL, NL, NL>>
                     ELSE full_file
    /\ Abort
    /\ UNCHANGED <<sec, num, retries, translated_heading, translation, any_call>>
    /\ KeepSetup /\ KeepJson /\ KeepUnit /\ KeepGap

\* lines 301-302: save_book_to_json reports a failure; the Book is returned
SaveBook ==
    /\ pc = "save_book"
    /\ \/ /\ structured_json' = <<BookDocument(book_object)>>
          /\ json_errors' = json_errors
       \/ /\ structured_json' = structured_json
          /\ json_errors' = json_errors \cup {"book"}
    /\ returned' = "book_object"
    /\ pc' = "done"
    /\ UNCHANGED <<book_object, sec, num, retries, translated_heading, translation,
                   files_open, parsed_json, histVars>>
    /\ KeepSetup /\ KeepFiles

Next ==
    \/ CheckInputPath
    \/ EnterApiKey
    \/ ParseManuscript
    \/ SaveParsed
    \/ SetupModel
    \/ OpenFiles
    \/ OpenFilesFails
    \/ TranslateHeadingOk
    \/ TranslateHeadingFails
    \/ HeadingGiveUp
    \/ WriteHeading
    \/ WriteHeadingFails
    \/ TranslateBlockOk
    \/ TranslateBlockFails
    \/ BlockGiveUp
    \/ WriteParagraph
    \/ WriteParagraphFails
    \/ SaveBook

Spec == MainInit /\ [][Next]_vars

----------------------------------------------------------------------------
(* Properties of convert_txt_to_dict *)

Stored(B, i) == Len(B[i]) >= 3 /\ ~IsMarker(B[i])

SectionOf(B, i) ==
    LET ms == {j \in 1..(i - 1) : IsMarker(B[j])}
    IN  IF ms = {} THEN SummaryKey ELSE MarkerName(B[Max(ms)])

RECURSIVE Pick(_, _, _)
Pick(B, S, i) ==
    IF i > Len(B) THEN <<>>
    ELSE (IF i \in S THEN <<B[i]>> ELSE <<>>) \o Pick(B, S, i + 1)

OccursIn(p, text) ==
    \E k \in 0..(Len(text) - Len(p)) : SubSeq(text, k + 1, k + Len(p)) = p

WellFormedParagraph(p, text) ==
    /\ Len(p) >= 3
    /\ ~IsMarker(p)
    /\ p[1] \notin Whitespace /\ p[Len(p)] \notin Whitespace
    /\ \A i \in 1..Len(p) : ~SepAt(p, i)
    /\ OccursIn(p, text)

\* C4: every trimmed, non-empty blank-line-delimited block of at least 3
\* characters that is not a marker is stored, in source order, under the name
\* of the most recent preceding marker, or under "summary" when there is
\* none; nothing else is stored; the "summary" key is always present.
C4_Placement ==
    pc = "parsed" =>
        LET B == Blocks(file_content)
            D == dictionary_format
        IN  /\ HasKey(D, SummaryKey)
            /\ \A e \in DOMAIN D :
                 D[e].val = Pick(B, {i \in DOMAIN B :
                                       Stored(B, i) /\ SectionOf(B, i) = D[e].key}, 1)
            /\ \A i \in DOMAIN B : Stored(B, i) => HasKey(D, SectionOf(B, i))
            /\ \A e \in DOMAIN D : \A n \in DOMAIN D[e].val :
                 WellFormedParagraph(D[e].val[n], file_content)

C4_Witness ==
    /\ pc = "parsed"
    /\ Lookup(dictionary_format, SummaryKey) # <<>>
    /\ \E e \in DOMAIN dictionary_format :
         /\ dictionary_format[e].key # SummaryKey
         /\ Len(dictionary_format[e].val) >= 2
         /\ dictionary_format[e].val[1] # dictionary_format[e].val[2]
    /\ \E i \in DOMAIN Blocks(file_content) : Len(Blocks(file_content)[i]) < 3

FirstMarker(B, k) ==
    Min({n \in DOMAIN B : IsMarker(B[n]) /\ MarkerName(B[n]) = k})

\* C5: the section names of the returned mapping are unique, "summary" comes
\* first, and the other sections are ordered by the first occurrence of their
\* markers in the text.
C5_KeyOrder ==
    pc = "parsed" =>
        LET B == Blocks(file_content)
            D == dictionary_format
        IN  /\ \A i, j \in DOMAIN D : i # j => D[i].key # D[j].key
            /\ D[1].key = SummaryKey
            /\ \A i, j \in 2..Len(D) :
                 i < j => FirstMarker(B, D[i].key) < FirstMarker(B, D[j].key)

----------------------------------------------------------------------------
(* Properties of Book *)

IsPrefix(s, t) == Len(s) <= Len(t) /\ SubSeq(t, 1, Len(s)) = s

\* C3: on a Book without chapters add_paragraph_to_last_chapter raises
\* ValueError and leaves title and content as they were; on a Book with a
\* chapter it does not raise.
C3_Guard ==
    [][last_call' = "add_paragraph_to_last_chapter" =>
         /\ book_object.content = <<>> =>
              (raised' = "ValueError" /\ book_object' = book_object)
         /\ book_object.content # <<>> =>
              (raised' = ""
               /\ CountParagraphs(book_object'.content)
                    = CountParagraphs(book_object.content) + 1)]_vars

C3_Witness ==
    /\ last_call = "add_paragraph_to_last_chapter"
    /\ raised = "ValueError"
    /\ book_object.content = <<>>
    /\ book_object.title = DefaultTitle

\* C10: every step of a Book appends: the title and the chapters before the
\* last one never change, add_chapter adds one empty chapter at the end, and
\* add_paragraph_to_last_chapter adds one paragraph at the end of the last
\* chapter and keeps its title and earlier paragraphs.
C10_AppendOnly ==
    [][LET c == book_object.content
           d == book_object'.content
           n == Len(c)
       IN  /\ book_object'.title = book_object.title
           /\ \A i \in 1..(n - 1) : d[i] = c[i]
           /\ last_call' = "add_chapter" =>
                /\ Len(d) = n + 1
                /\ d[n + 1].paragraphs = <<>>
                /\ n >= 1 => d[n] = c[n]
           /\ (last_call' = "add_paragraph_to_last_chapter" /\ raised' = "") =>
                /\ Len(d) = n
                /\ d[n].title = c[n].title
                /\ Len(d[n].paragraphs) = Len(c[n].paragraphs) + 1
                /\ IsPrefix(c[n].paragraphs, d[n].paragraphs)]_vars

C10_Witness ==
    /\ Len(book_object.content) >= 2
    /\ book_object.content[1].paragraphs # <<>>
    /\ Len(book_object.content[Len(book_object.content)].paragraphs) >= 2
    /\ last_call = "add_paragraph_to_last_chapter"

----------------------------------------------------------------------------
(* Properties of main *)

WriteStages == {"heading_write", "para_write"}

\* result and sentinel of the unit whose retry loop has just ended
UnitResult == IF pc = "heading_write" THEN translated_heading ELSE translation
UnitSentinel == IF pc = "heading_write" THEN HeadingSentinel(index)
                ELSE ParagraphSentinel

\* C1: a unit whose every call fails is attempted exactly 5 times, never
\* more; its result is the sentinel of its kind; and the run goes on to the
\* unit's write step: it is never aborted by the exhausted retry loop itself.
C1_Exhausted ==
    /\ attempts <= max_retries
    /\ (pc \in WriteStages /\ ~unit_ok) =>
          /\ attempts = max_retries
          /\ fails = max_retries
          /\ gave_up
          /\ UnitResult = UnitSentinel
    /\ gave_up => (~unit_ok /\ pc \in WriteStages \cup {"aborted"})
    /\ (scope_exception /\ any_call) => (unit_ok \/ gave_up)

C1_Witness ==
    /\ pc = "para_write"
    /\ ~unit_ok
    /\ attempts = 5
    /\ translation = ParagraphSentinel
    /\ Len(book_object.content) >= 1

\* C2: when a call for a unit returns after k-1 failed calls (1 <= k <= 5),
\* the unit's result is that call's stripped response, the sentinel branch is
\* not taken, and no call for the unit follows: the loop has been left.
C2_FirstSuccess ==
    /\ unit_ok => pc \in WriteStages \cup {"aborted"}
    /\ (pc \in WriteStages /\ unit_ok) =>
          /\ UnitResult = Strip(last_return)
          /\ attempts = fails + 1
          /\ attempts \in 1..5
          /\ ~gave_up

C2_Witness ==
    /\ pc = "para_write"
    /\ unit_ok
    /\ fails = 2
    /\ attempts = 3
    /\ translation = <<"o", "k">>

RECURSIVE CountBlocks(_)
CountBlocks(d) ==
    IF d = <<>> THEN 0 ELSE Len(Head(d).val) + CountBlocks(Tail(d))

PossibleTranslations == {Strip(r) : r \in Replies} \cup {ParagraphSentinel}

ChaptersMatch(c, d) ==
    /\ Len(c) = Len(d)
    /\ CountParagraphs(c) = CountBlocks(d)
    /\ \A i \in DOMAIN c :
         /\ c[i].title \in {Strip(r) : r \in Replies} \cup {HeadingSentinel(d[i].key)}
         /\ Len(c[i].paragraphs) = Len(d[i].val)
         /\ \A n \in DOMAIN c[i].paragraphs :
              /\ c[i].paragraphs[n].original = d[i].val[n]
              /\ c[i].paragraphs[n].translated \in PossibleTranslations

\* C6: once the translation pass has completed, the Book, and the document
\* written to the structured-book file, has one chapter per parsed section in
\* section order, and chapter i holds the paragraphs of section i in source
\* order, each with its source text as "original".
C6_Structure ==
    /\ pc \in {"save_book", "done"} =>
          ChaptersMatch(book_object.content, dictionary_format)
    /\ structured_json # <<>> =>
          /\ structured_json[1].title = book_object.title
          /\ ChaptersMatch(structured_json[1].content, dictionary_format)

C6_Witness ==
    /\ pc = "done"
    /\ structured_json # <<>>
    /\ Len(dictionary_format) >= 2
    /\ \E i \in DOMAIN structured_json[1].content :
         LET ps == structured_json[1].content[i].paragraphs
         IN  /\ Len(ps) >= 2
             /\ ps[1].original # ps[2].original
             /\ ps[1].translated = ParagraphSentinel
             /\ ps[2].translated = <<"o", "k">>

\* C7: a probe that raises leaves the key invalid and main in the key loop; a
\* probe that returns, whatever its text, ends the loop; and nothing is
\* parsed, set up or translated before a probe has returned.
C7_KeyGate ==
    /\ last_probe = "raised" => (api_check /\ pc = "key")
    /\ last_probe = "text" => (~api_check /\ pc \notin {"start", "key"})
    /\ pc = "key" => api_check
    /\ last_probe # "text" =>
          /\ dictionary_format = NoDict
          /\ indexes = <<>>
          /\ parsed_json = <<>>
          /\ ~model_ready
          /\ ~any_call

C7_Witness ==
    /\ pc = "parse"
    /\ key_tries = 2
    /\ last_probe = "text"
    /\ ~api_check

\* C8: between two consecutive successful translation calls the throttle
\* pause has been taken, and a retry pause is taken only after a failed call.
C8_Throttle ==
    /\ had_prev => "throttle" \in gap
    /\ "retry" \in pauses => failed_since

\* C9: an exception in the translation scope ends the run: main returns
\* None, nothing further is translated or added to the Book, and the
\* structured-book file is never written; a failing JSON write is only
\* reported, and the run goes on to the model setup, or returns the Book.
C9_AbortScope ==
    [][/\ scope_exception' =>
            /\ pc' = "aborted"
            /\ returned' = "None"
            /\ structured_json' = <<>>
            /\ "book" \notin json_errors'
       /\ scope_exception => UNCHANGED <<pc, attempts, any_call, book_object>>
       /\ json_errors' # json_errors =>
            /\ ~scope_exception'
            /\ pc' \in {"setup", "done"}
            /\ pc' = "done" => returned' = "book_object"]_vars

C9_Witness ==
    /\ pc = "aborted"
    /\ scope_exception
    /\ returned = "None"
    /\ any_call
    /\ sec >= 1
    /\ sec < Len(indexes)
    /\ "parsed" \in json_errors

====
